---- MODULE Spec2Model ----
(***************************************************************************)
(* Matrix2D (solutions/Abhishek/matrix_challenge_Abhishek_1RF23IS003.py):  *)
(* a wrapper around a NumPy array with operator overloads.                 *)
(*                                                                         *)
(* The heap is modelled explicitly: an ndarray is a handle (buffer id and  *)
(* shape) onto a flat row-major buffer, so that a view (reshape) and the   *)
(* array it was taken from share storage, and a fresh result does not.     *)
(* Entries are Python ints (NumPy int64); the bounded inputs keep every    *)
(* value far inside that width.                                            *)
(***************************************************************************)
EXTENDS Integers, Sequences, FiniteSets, TLC

\* Bounds of the model.
\* objects the caller holds: raw ndarrays and Matrix2D instances
MaxLive == 2
\* extent of an axis of an input
MaxDim == 2

\* for _ in range(1000)
Iterations == 1000

VARIABLES
  bufs,     \* the heap: buffer id -> flat row-major data
  arrays,   \* raw ndarrays held by the caller: handles [buf, shape]
  insts,    \* the Matrix2D instances alive: records [mat |-> handle]
  last,     \* the last call: operation, operands, outcome, heap before it
  pc,       \* where the caller is: "caller", "raised" once an exception
            \* (which nothing in the program catches) has ended it, or a
            \* position in the demo loop
  iter      \* iterations of the demo loop completed

vars == <<bufs, arrays, insts, last, pc, iter>>

(***************************************************************************)
(* Python values handed to the wrapper.                                    *)
(***************************************************************************)
NoArray == [buf |-> 0, shape |-> <<>>]

PyList(items, depth) == [kind |-> "list", depth |-> depth, items |-> items, arr |-> NoArray]
PyTuple(items, depth) == [kind |-> "tuple", depth |-> depth, items |-> items, arr |-> NoArray]
PyInt(n) == [kind |-> "int", depth |-> 0, items |-> n, arr |-> NoArray]
PyNone == [kind |-> "none", depth |-> 0, items |-> 0, arr |-> NoArray]
PyStr == [kind |-> "str", depth |-> 0, items |-> 0, arr |-> NoArray]
PyNdarray(a) == [kind |-> "ndarray", depth |-> 0, items |-> 0, arr |-> a]
PyMatrix2D(m) == [kind |-> "Matrix2D", depth |-> 0, items |-> 0, arr |-> m.mat]

(***************************************************************************)
(* The array library, as far as the wrapper uses it.                       *)
(***************************************************************************)
Max(a, b) == IF a >= b THEN a ELSE b

RECURSIVE Prod(_)
Prod(s) == IF Len(s) = 0 THEN 1 ELSE Head(s) * Prod(Tail(s))

\* np.array(nested list): the shape is read off the nesting ...
RECURSIVE ShapeOf(_, _)
ShapeOf(x, d) ==
  IF d = 0 THEN <<>>
  ELSE IF Len(x) = 0 THEN <<0>>
  ELSE <<Len(x)>> \o ShapeOf(x[1], d - 1)

\* ... and the entries are laid out row-major.
RECURSIVE Flatten(_, _)
Flatten(x, d) ==
  IF d = 0 THEN <<x>>
  ELSE IF Len(x) = 0 THEN <<>>
  ELSE Flatten(x[1], d - 1) \o Flatten(Tail(x), d)

np_array(data) ==
  [shape |-> ShapeOf(data.items, data.depth), flat |-> Flatten(data.items, data.depth)]

\* The value of an array: its shape and the data of its buffer.
Deref(h, a) == [shape |-> a.shape, flat |-> h[a.buf]]

ndim(a) == Len(a.shape)

\* Broadcasting: shapes are right-aligned, missing leading axes count as 1.
Pad(s, r) == [i \in 1..r |-> IF i <= r - Len(s) THEN 1 ELSE s[i - (r - Len(s))]]

Broadcastable(s, t) ==
  LET r == Max(Len(s), Len(t))
  IN  \A i \in 1..r : Pad(s, r)[i] = Pad(t, r)[i] \/ Pad(s, r)[i] = 1 \/ Pad(t, r)[i] = 1

BroadcastShape(s, t) ==
  LET r == Max(Len(s), Len(t))
  IN  [i \in 1..r |-> IF Pad(s, r)[i] = 1 THEN Pad(t, r)[i] ELSE Pad(s, r)[i]]

Stride(shape, i) == Prod(SubSeq(shape, i + 1, Len(shape)))

\* Coordinate i of the k-th (1-based, row-major) entry of an array of this shape.
Coord(k, shape, i) == ((k - 1) \div Stride(shape, i)) % shape[i]

RECURSIVE SumTo(_, _)
SumTo(f, n) == IF n = 0 THEN 0 ELSE f[n] + SumTo(f, n - 1)

\* Where entry k of the broadcast result reads an operand of shape s.
Offset(k, out, s) ==
  LET r == Len(out)
      p == Pad(s, r)
  IN  1 + SumTo([i \in 1..r |-> (IF p[i] = 1 THEN 0 ELSE Coord(k, out, i)) * Stride(p, i)], r)

RECURSIVE IntPow(_, _)
IntPow(x, p) == IF p = 0 THEN 1 ELSE x * IntPow(x, p - 1)

Scalar(f, x, y) ==
  CASE f = "add" -> x + y
    [] f = "sub" -> x - y
    [] f = "mul" -> x * y
    [] f = "pow" -> IntPow(x, y)

\* a + b, a - b, a * b, np.power(a, b) on array values of broadcastable shapes.
Ufunc(f, a, b) ==
  LET out == BroadcastShape(a.shape, b.shape)
  IN  [shape |-> out,
       flat |-> [k \in 1..Prod(out) |->
                   Scalar(f, a.flat[Offset(k, out, a.shape)], b.flat[Offset(k, out, b.shape)])]]

\* Mutant: the element-wise product in place of the matrix product.
Hadamard(a, b) == Ufunc("mul", a, b)

\* a @ b on rank-2 array values whose inner dimensions agree.
MatmulVal(a, b) ==
  LET m == a.shape[1]
      kk == a.shape[2]
      n == b.shape[2]
  IN  [shape |-> <<m, n>>,
       flat |-> [e \in 1..(m * n) |->
                   LET i == (e - 1) \div n
                       j == (e - 1) % n
                   IN  SumTo([l \in 1..kk |-> a.flat[i * kk + l] * b.flat[(l - 1) * n + j + 1]], kk)]]

\* An array value stored in a buffer of its own.
Fresh(h, v) == [bufs |-> Append(h, v.flat), arr |-> [buf |-> Len(h) + 1, shape |-> v.shape]]

(***************************************************************************)
(* Matrix2D.__init__                                                       *)
(***************************************************************************)
\* Mutant: any sequence is converted, not only a list.
IsSequence(data) == data.kind \in {"list", "tuple"}

IsList(data) == data.kind = "list"

IsNdarray(data) == data.kind = "ndarray"

\* Mutant: data.reshape(-1, 1), a column instead of a row.
ReshapeColumn(a) == [buf |-> a.buf, shape |-> <<a.shape[1], 1>>]

\* Mutant: the reshape is forgotten.
ReshapeNone(a) == a

\* data.reshape(1, -1): a view of the same buffer, one row.
Reshape1(a) == [buf |-> a.buf, shape |-> <<1, a.shape[1]>>]

\* Mutant: the elif branch is missing, every rank but 1 is stored as it is.
NormaliseAnyRank(a) ==
  IF ndim(a) = 1 THEN [err |-> "none", mat |-> [buf |-> a.buf, shape |-> <<1, a.shape[1]>>]]
  ELSE [err |-> "none", mat |-> a]

\* The rank normalisation: the array to store, or the ValueError.
Normalise(a) ==
  IF ndim(a) = 1 THEN [err |-> "none", mat |-> Reshape1(a)]
  ELSE IF ndim(a) # 2 THEN [err |-> "ValueError", mat |-> NoArray]
  ELSE [err |-> "none", mat |-> a]

\* The constructor on heap h: the outcome, the heap after it and the array stored.
Matrix2D_init(h, data) ==
  LET conv == Fresh(h, np_array(data))
      h1 == IF IsList(data) THEN conv.bufs ELSE h
      d1 == IF IsList(data) THEN PyNdarray(conv.arr) ELSE data
  IN  IF ~IsNdarray(d1) THEN [err |-> "TypeError", bufs |-> h, mat |-> NoArray]
      ELSE LET n == Normalise(d1.arr)
           IN  IF n.err # "none" THEN [err |-> n.err, bufs |-> h, mat |-> NoArray]
               ELSE [err |-> "none", bufs |-> h1, mat |-> n.mat]

\* A call returns: the instance is added on success, nothing changes on failure.
Return(op, self, other, r) ==
  /\ bufs' = r.bufs
  /\ insts' = IF r.err = "none" THEN Append(insts, [mat |-> r.mat]) ELSE insts
  /\ last' = [op |-> op, self |-> self, other |-> other, err |-> r.err,
              res |-> IF r.err = "none" THEN Len(insts) + 1 ELSE 0,
              snap |-> bufs, ninst |-> Len(insts)]

\* Matrix2D.shape()
Matrix2D_shape(m) == m.mat.shape

\* Matrix2D(data)
Construct(data) == Return("init", NoArray, data, Matrix2D_init(bufs, data))

(***************************************************************************)
(* The operators                                                           *)
(***************************************************************************)
\* Mutant: a raw array passes the operand check of __matmul__.
IsMatrixLike(other) == other.kind \in {"Matrix2D", "ndarray"}

IsMatrix2D(other) == other.kind = "Matrix2D"

\* What NumPy makes of the right operand of self.mat + other: a Matrix2D gives
\* its array, an array is taken as it is, a number or a (nested) sequence is
\* converted; None and str have no arithmetic with an integer array.
HasOperandValue(other) == other.kind \in {"Matrix2D", "ndarray", "int", "list", "tuple"}

OperandShape(other) ==
  IF other.kind \in {"Matrix2D", "ndarray"} THEN other.arr.shape ELSE np_array(other).shape

OperandValue(h, other) ==
  IF other.kind \in {"Matrix2D", "ndarray"} THEN Deref(h, other.arr) ELSE np_array(other)

Raised(e, h) == [err |-> e, bufs |-> h, mat |-> NoArray]

\* Matrix2D(<expression>): the wrapper's constructor on a freshly computed array.
Wrap(h, v) ==
  LET t == Fresh(h, v)
      r == Matrix2D_init(t.bufs, PyNdarray(t.arr))
  IN  IF r.err = "none" THEN r ELSE Raised(r.err, h)

\* The exception Matrix2D(<expression>) raises on a result of shape s, if any.
\* With integer entries an exception depends on the operands' types and shapes
\* only, so the outcome of a call is decided before its entries are computed.
WrapErr(s) == Matrix2D_init(<<>>, PyNdarray([buf |-> 0, shape |-> s])).err

ElementwiseErr(self, other) ==
  IF ~HasOperandValue(other) THEN "numpy:TypeError"
  ELSE IF ~Broadcastable(self.shape, OperandShape(other)) THEN "numpy:broadcast"
  ELSE WrapErr(BroadcastShape(self.shape, OperandShape(other)))

\* __add__, __sub__, __mul__ (f is "add", "sub", "mul") and np.power (f is "pow").
Elementwise(h, f, self, other) ==
  IF ElementwiseErr(self, other) # "none" THEN Raised(ElementwiseErr(self, other), h)
  ELSE Wrap(h, Ufunc(f, Deref(h, self), OperandValue(h, other)))

\* Mutant: self.mat += other, the sum written into the left operand's buffer.
Matrix2D_iadd(h, self, other) ==
  LET r == Elementwise(h, "add", self, other)
  IN  IF r.err = "none" /\ r.mat.shape = self.shape
      THEN [err |-> "none", bufs |-> [h EXCEPT ![self.buf] = r.bufs[r.mat.buf]], mat |-> self]
      ELSE r

Matrix2D_add(h, self, other) == Elementwise(h, "add", self, other)

\* Mutant: + where - is meant.
Matrix2D_sub_plus(h, self, other) == Elementwise(h, "add", self, other)

Matrix2D_sub(h, self, other) == Elementwise(h, "sub", self, other)

Matrix2D_mul(h, self, other) == Elementwise(h, "mul", self, other)

Matrix2D_pow(h, self, power) == Elementwise(h, "pow", self, power)

\* __matmul__: the type check comes before anything is computed.  Both arrays
\* are of rank 2 whenever the wrapper stored them (C8_RankTwo), so the product
\* is the 2-D one and fails only on inner dimensions that differ.
MatmulErr(self, other) ==
  IF ~IsMatrix2D(other) THEN "TypeError"
  ELSE IF ndim(self) # 2 \/ ndim(other.arr) # 2 THEN "numpy:matmul"
  ELSE IF self.shape[2] # other.arr.shape[1] THEN "numpy:matmul"
  ELSE WrapErr(<<self.shape[1], other.arr.shape[2]>>)

Matrix2D_matmul(h, self, other) ==
  IF MatmulErr(self, other) # "none" THEN Raised(MatmulErr(self, other), h)
  ELSE Wrap(h, MatmulVal(Deref(h, self), Deref(h, other.arr)))

Add(i, other) == Return("add", insts[i].mat, other, Matrix2D_add(bufs, insts[i].mat, other))

Sub(i, other) == Return("sub", insts[i].mat, other, Matrix2D_sub(bufs, insts[i].mat, other))

Mul(i, other) == Return("mul", insts[i].mat, other, Matrix2D_mul(bufs, insts[i].mat, other))

Matmul(i, other) == Return("matmul", insts[i].mat, other, Matrix2D_matmul(bufs, insts[i].mat, other))

Pow(i, power) == Return("pow", insts[i].mat, power, Matrix2D_pow(bufs, insts[i].mat, power))

(***************************************************************************)
(* The caller: any sequence of constructions and operator applications on  *)
(* bounded inputs, and in-place writes to the raw arrays it holds.         *)
(***************************************************************************)
\* The nested list of the given shape (each axis of a list but the last is
\* non-empty) holding the entries of flat, row-major.
RECURSIVE Nest(_, _)
Nest(shape, flat) ==
  IF Len(shape) = 0 THEN flat[1]
  ELSE LET sz == Prod(Tail(shape))
       IN  [i \in 1..shape[1] |-> Nest(Tail(shape), SubSeq(flat, (i - 1) * sz + 1, i * sz))]

\* Entries first, first + step, ... for an input of the given shape.
Pattern(shape, first, step) == [k \in 1..Prod(shape) |-> first + (k - 1) * step]

Counting(shape, first) == Pattern(shape, first, 1)

\* Extents of an axis: empty, a single entry (which broadcasts), MaxDim entries.
Dims == {0, 1, MaxDim}

Shapes1 == {<<n>> : n \in Dims}

Shapes2 == {<<r, c>> : r \in Dims \ {0}, c \in Dims}

Shapes3 == {<<MaxDim, 1, MaxDim>>, <<1, 1, 1>>}

\* The inputs the caller draws from, each named by its kind, its shape and,
\* for an object it already holds, its index.
In(kind, shape, ref) == [kind |-> kind, shape |-> shape, ref |-> ref]

Lists == {In("list", s, 0) : s \in Shapes1 \cup Shapes2 \cup Shapes3}

Tuples == {In("tuple", s, 0) : s \in {<<MaxDim>>, <<1, MaxDim>>}}

Scalars == {In("int", <<>>, 0)}

Others == {In("none", <<>>, 0), In("str", <<>>, 0)}

HeldArrays == {In("ndarray", <<>>, i) : i \in DOMAIN arrays}

Instances == {In("Matrix2D", <<>>, j) : j \in DOMAIN insts}

\* Anything the caller may hand to the constructor ...
Inputs == Lists \cup Tuples \cup Scalars \cup Others \cup HeldArrays \cup Instances

\* ... and as the right operand of an operator.
Operands ==
  Instances \cup HeldArrays \cup Scalars \cup {In("none", <<>>, 0)}
    \cup {In("list", <<MaxDim>>, 0), In("list", <<MaxDim, 1, MaxDim>>, 0)}

\* The arrays the caller makes for itself: np.array of a number or a nested list.
ArraySources ==
  Scalars \cup {In("list", s, 0) : s \in {<<MaxDim>>, <<MaxDim, MaxDim>>, <<MaxDim, 1, MaxDim>>}}

\* The Python value an input stands for.
Value(d) ==
  CASE d.kind = "list" -> PyList(Nest(d.shape, Counting(d.shape, 1)), Len(d.shape))
    [] d.kind = "tuple" -> PyTuple(Nest(d.shape, Counting(d.shape, 1)), Len(d.shape))
    [] d.kind = "int" -> PyInt(2)
    [] d.kind = "none" -> PyNone
    [] d.kind = "str" -> PyStr
    [] d.kind = "ndarray" -> PyNdarray(arrays[d.ref])
    [] d.kind = "Matrix2D" -> PyMatrix2D(insts[d.ref])

Exponents == {0, 2}

\* What the caller writes into its array.
WriteVals == {9}

NoCall == [op |-> "none", self |-> NoArray, other |-> PyNone, err |-> "none",
           res |-> 0, snap |-> <<>>, ninst |-> 0]

Init ==
  /\ bufs = <<>>
  /\ arrays = <<>>
  /\ insts = <<>>
  /\ last = NoCall
  /\ pc = "caller"
  /\ iter = 0

Live == Len(arrays) + Len(insts)

\* a = np.array(x), for a nested list or a number x (a rank-0 array)
NewArray ==
  /\ pc = "caller"
  /\ Live < MaxLive
  /\ \E d \in ArraySources :
       LET x == Value(d)
           t == Fresh(bufs, np_array(x))
       IN  /\ bufs' = t.bufs
           /\ arrays' = Append(arrays, t.arr)
           /\ last' = [NoCall EXCEPT !.op = "np.array", !.other = x, !.snap = bufs,
                                     !.ninst = Len(insts)]
  /\ UNCHANGED <<insts, pc, iter>>

\* a.flat[0] = v: the caller writes into an array it holds, in place
SetItem ==
  /\ pc = "caller"
  /\ \E i \in DOMAIN arrays, v \in WriteVals :
       /\ Len(bufs[arrays[i].buf]) > 0
       /\ bufs[arrays[i].buf][1] # v
       /\ bufs' = [bufs EXCEPT ![arrays[i].buf][1] = v]
       /\ last' = [NoCall EXCEPT !.op = "setitem", !.self = arrays[i], !.snap = bufs,
                                 !.ninst = Len(insts)]
  /\ UNCHANGED <<arrays, insts, pc, iter>>

\* A call that returns an instance needs room for it.
Room(e) == e = "none" => Live < MaxLive

\* An exception propagates to the caller, where nothing catches it.
Outcome == IF last'.err = "none" THEN "caller" ELSE "raised"

DoConstruct ==
  /\ pc = "caller"
  /\ \E d \in Inputs :
       Room(Matrix2D_init(bufs, Value(d)).err) /\ Construct(Value(d))
  /\ pc' = Outcome
  /\ UNCHANGED <<arrays, iter>>

DoAdd ==
  /\ pc = "caller"
  /\ \E i \in DOMAIN insts, d \in Operands :
       Room(ElementwiseErr(insts[i].mat, Value(d))) /\ Add(i, Value(d))
  /\ pc' = Outcome
  /\ UNCHANGED <<arrays, iter>>

DoSub ==
  /\ pc = "caller"
  /\ \E i \in DOMAIN insts, d \in Operands :
       Room(ElementwiseErr(insts[i].mat, Value(d))) /\ Sub(i, Value(d))
  /\ pc' = Outcome
  /\ UNCHANGED <<arrays, iter>>

DoMul ==
  /\ pc = "caller"
  /\ \E i \in DOMAIN insts, d \in Operands :
       Room(ElementwiseErr(insts[i].mat, Value(d))) /\ Mul(i, Value(d))
  /\ pc' = Outcome
  /\ UNCHANGED <<arrays, iter>>

DoMatmul ==
  /\ pc = "caller"
  /\ \E i \in DOMAIN insts, d \in Operands :
       Room(MatmulErr(insts[i].mat, Value(d))) /\ Matmul(i, Value(d))
  /\ pc' = Outcome
  /\ UNCHANGED <<arrays, iter>>

DoPow ==
  /\ pc = "caller"
  /\ \E i \in DOMAIN insts, p \in Exponents :
       Room(ElementwiseErr(insts[i].mat, PyInt(p))) /\ Pow(i, PyInt(p))
  /\ pc' = Outcome
  /\ UNCHANGED <<arrays, iter>>

Next ==
  \/ NewArray
  \/ SetItem
  \/ DoConstruct
  \/ DoAdd
  \/ DoSub
  \/ DoMul
  \/ DoMatmul
  \/ DoPow

Spec == Init /\ [][Next]_vars

(***************************************************************************)
(* The timed loop: for _ in range(1000), the fixed expression              *)
(*   A = Matrix2D([[1, 2], [3, 4]]); B = Matrix2D([5, 6])                   *)
(*   result = (A + B) @ ((A - B) ** 2)                                      *)
(* evaluated left operand first: A + B, A - B, ** 2, @.  The instances of  *)
(* one iteration are insts[1..6] = A, B, A + B, A - B, (A - B) ** 2,       *)
(* result; rebinding the names in the next iteration releases them.        *)
(***************************************************************************)
DemoA == PyList(<<(<<1, 2>>), (<<3, 4>>)>>, 2)

DemoB == PyList(<<5, 6>>, 1)

InitDemo ==
  /\ bufs = <<>>
  /\ arrays = <<>>
  /\ insts = <<>>
  /\ last = NoCall
  /\ pc = "A"
  /\ iter = 0

StepA == pc = "A" /\ Construct(DemoA) /\ pc' = "B" /\ UNCHANGED <<arrays, iter>>

StepB == pc = "B" /\ Construct(DemoB) /\ pc' = "add" /\ UNCHANGED <<arrays, iter>>

StepAdd ==
  pc = "add" /\ Add(1, PyMatrix2D(insts[2])) /\ pc' = "sub" /\ UNCHANGED <<arrays, iter>>

StepSub ==
  pc = "sub" /\ Sub(1, PyMatrix2D(insts[2])) /\ pc' = "pow" /\ UNCHANGED <<arrays, iter>>

StepPow == pc = "pow" /\ Pow(4, PyInt(2)) /\ pc' = "matmul" /\ UNCHANGED <<arrays, iter>>

StepMatmul ==
  pc = "matmul" /\ Matmul(3, PyMatrix2D(insts[5])) /\ pc' = "result"
    /\ UNCHANGED <<arrays, iter>>

StepLoop ==
  /\ pc = "result"
  /\ iter' = iter + 1
  /\ IF iter + 1 < Iterations
     THEN pc' = "A" /\ bufs' = <<>> /\ insts' = <<>> /\ last' = NoCall
     ELSE pc' = "done" /\ UNCHANGED <<bufs, insts, last>>
  /\ UNCHANGED arrays

NextDemo ==
  \/ StepA
  \/ StepB
  \/ StepAdd
  \/ StepSub
  \/ StepPow
  \/ StepMatmul
  \/ StepLoop

SpecDemo == InitDemo /\ [][NextDemo]_vars

(***************************************************************************)
(* Add then Subtract on two matrices of equal shape, drawn from bounded    *)
(* inputs: A, B, S = A + B, D = S - B are insts[1..4].                     *)
(***************************************************************************)
Firsts == {-2, 0, 3}

Steps == {-1, 0, 2}

InitPair ==
  /\ bufs = <<>>
  /\ arrays = <<>>
  /\ insts = <<>>
  /\ last = NoCall
  /\ pc = "A"
  /\ iter = 0

\* A = Matrix2D(<list>), of any of the input shapes
PairA ==
  /\ pc = "A"
  /\ \E s \in Shapes1 \cup Shapes2, f \in Firsts, d \in Steps :
       Construct(PyList(Nest(s, Pattern(s, f, d)), Len(s)))
  /\ pc' = "B"
  /\ UNCHANGED <<arrays, iter>>

\* B = Matrix2D(<list>), of the shape of A
PairB ==
  /\ pc = "B"
  /\ \E s \in Shapes1 \cup Shapes2, f \in Firsts, d \in Steps :
       /\ Construct(PyList(Nest(s, Pattern(s, f, d)), Len(s)))
       /\ insts'[2].mat.shape = insts[1].mat.shape
  /\ pc' = "add"
  /\ UNCHANGED <<arrays, iter>>

\* S = A + B
PairAdd ==
  pc = "add" /\ Add(1, PyMatrix2D(insts[2])) /\ pc' = "sub" /\ UNCHANGED <<arrays, iter>>

\* D = S - B
PairSub ==
  pc = "sub" /\ Sub(3, PyMatrix2D(insts[2])) /\ pc' = "done" /\ UNCHANGED <<arrays, iter>>

NextPair ==
  \/ PairA
  \/ PairB
  \/ PairAdd
  \/ PairSub

SpecPair == InitPair /\ [][NextPair]_vars

(***************************************************************************)
(* The claims                                                              *)
(***************************************************************************)
Operators == {"add", "sub", "mul", "matmul", "pow"}

Succeeded == last.err = "none"

\* A failed call made no instance and left the heap as it was.
NothingMade == last.res = 0 /\ Len(insts) = last.ninst /\ bufs = last.snap

\* The instance the last call returned.
Result == insts[last.res]

\* The rank of the array a list or array input gives.
InputRank(d) == IF d.kind = "ndarray" THEN ndim(d.arr) ELSE Len(np_array(d).shape)

\* Entry (i, j), 0-based, of an array value of rank at most 2 seen from a
\* rank-2 result: an axis of extent 1 (or missing) is repeated.
At2(v, i, j) ==
  LET p == Pad(v.shape, 2)
  IN  v.flat[(IF p[1] = 1 THEN 0 ELSE i) * p[2] + (IF p[2] = 1 THEN 0 ELSE j) + 1]

\* C1: a list of N numbers (N = 0 included) constructs a Matrix2D whose shape()
\* is (1, N); a list of rows lists of cols numbers each constructs one whose
\* shape() is (rows, cols).
C1_ShapeAfterConstruct ==
  (last.op = "init" /\ last.other.kind = "list" /\ last.other.depth \in {1, 2}) =>
    /\ Succeeded
    /\ last.other.depth = 1 => Matrix2D_shape(Result) = <<1, Len(last.other.items)>>
    /\ last.other.depth = 2 =>
         Matrix2D_shape(Result) = <<Len(last.other.items), Len(last.other.items[1])>>

\* C1 witness: the empty list was constructed, and shape() is (1, 0).
C1_Witness ==
  /\ last.op = "init" /\ last.other.kind = "list" /\ last.other.depth = 1
  /\ Len(last.other.items) = 0
  /\ Succeeded /\ Matrix2D_shape(Result) = <<1, 0>>

\* C2 as stated: the constructor raises TypeError exactly when its input is
\* neither a sequence (list or tuple) nor an array.
C2_TypeErrorIffNotSequence ==
  last.op = "init" =>
    (last.err = "TypeError" <=> last.other.kind \notin {"list", "tuple", "ndarray"})

\* C2 amended: the constructor raises TypeError exactly when its input is
\* neither a list nor an ndarray (a tuple is rejected too); the type check comes
\* first, so such an input gives neither the ValueError nor an instance.
C2_TypeErrorIffNotListOrArray ==
  last.op = "init" =>
    /\ last.err = "TypeError" <=> last.other.kind \notin {"list", "ndarray"}
    /\ last.other.kind \notin {"list", "ndarray"} => NothingMade

\* C2 witness: a tuple of numbers was handed to the constructor and rejected.
C2_Witness ==
  last.op = "init" /\ last.other.kind = "tuple" /\ last.err = "TypeError"

\* C3: a list or array of rank other than 1 and 2 (rank 0, rank 3) always
\* fails with the ValueError and makes no instance; rank 1 and rank 2 never
\* raise it.
C3_RankError ==
  (last.op = "init" /\ last.other.kind \in {"list", "ndarray"}) =>
    IF InputRank(last.other) \in {1, 2}
    THEN Succeeded
    ELSE last.err = "ValueError" /\ NothingMade

\* C3 witness: a rank-0 array was rejected with the ValueError.
C3_Witness ==
  /\ last.op = "init" /\ last.other.kind = "ndarray" /\ InputRank(last.other) = 0
  /\ last.err = "ValueError"

\* C4: A @ other with other not a Matrix2D (a number, a list, a raw array, even
\* one of a fitting shape) fails with TypeError, makes no instance and leaves
\* every array as it was.
C4_MatmulTypeError ==
  (last.op = "matmul" /\ last.other.kind # "Matrix2D") =>
    last.err = "TypeError" /\ NothingMade

\* C4 witness: a raw rank-2 array whose rows match A's columns was refused.
C4_Witness ==
  /\ last.op = "matmul" /\ last.other.kind = "ndarray"
  /\ ndim(last.other.arr) = 2 /\ last.other.arr.shape[1] = last.self.shape[2]
  /\ last.err = "TypeError"

\* C5: for A and B of equal shape, A + B has that shape and holds the sums of
\* the corresponding entries, and (A + B) - B equals A entry for entry.
C5_AddThenSub ==
  LET A == Deref(bufs, insts[1].mat)
      B == Deref(bufs, insts[2].mat)
      S == Deref(bufs, insts[3].mat)
      D == Deref(bufs, insts[4].mat)
  IN  /\ pc \in {"sub", "done"} =>
           /\ Succeeded
           /\ S.shape = A.shape
           /\ \A k \in 1..Prod(A.shape) : S.flat[k] = A.flat[k] + B.flat[k]
      /\ pc = "done" =>
           /\ D.shape = A.shape
           /\ \A k \in 1..Prod(A.shape) : D.flat[k] = A.flat[k]

\* C5 witness: the round trip was made on two full MaxDim x MaxDim matrices
\* with B non-zero.
C5_Witness ==
  /\ pc = "done" /\ Len(insts) = 4
  /\ insts[1].mat.shape = <<MaxDim, MaxDim>>
  /\ bufs[insts[2].mat.buf][1] # 0
  /\ bufs[insts[4].mat.buf] = bufs[insts[1].mat.buf]

\* C6: in every iteration B is stored as the row [[5, 6]], A + B is
\* [[6, 8], [8, 10]], A - B is [[-4, -4], [-2, -2]], its square is
\* [[16, 16], [4, 4]] and the result is [[128, 128], [168, 168]].
C6_DemoValues ==
  /\ Succeeded
  /\ Len(insts) >= 2 => Deref(bufs, insts[2].mat) = [shape |-> <<1, 2>>, flat |-> <<5, 6>>]
  /\ Len(insts) >= 3 =>
       Deref(bufs, insts[3].mat) = [shape |-> <<2, 2>>, flat |-> <<6, 8, 8, 10>>]
  /\ Len(insts) >= 4 =>
       Deref(bufs, insts[4].mat) = [shape |-> <<2, 2>>, flat |-> <<-4, -4, -2, -2>>]
  /\ Len(insts) >= 5 =>
       Deref(bufs, insts[5].mat) = [shape |-> <<2, 2>>, flat |-> <<16, 16, 4, 4>>]
  /\ pc \in {"result", "done"} =>
       /\ Len(insts) = 6
       /\ Deref(bufs, insts[6].mat) = [shape |-> <<2, 2>>, flat |-> <<128, 128, 168, 168>>]

\* C6 witness: the last of the iterations has produced the result.
C6_Witness ==
  /\ pc = "done" /\ iter = Iterations
  /\ bufs[insts[6].mat.buf] = <<128, 128, 168, 168>>

C8_RankTwo == \A j \in DOMAIN insts : ndim(insts[j].mat) = 2

\* C8 witness: an operator with a rank-1 operand (a list, broadcast over the
\* rows) returned an instance.
C8_Witness ==
  /\ last.op \in {"add", "sub", "mul"} /\ last.other.kind = "list"
  /\ InputRank(last.other) = 1 /\ Succeeded
  /\ ndim(Result.mat) = 2

C10_InputNotShared ==
  last.op = "setitem" =>
    \A j \in DOMAIN insts : bufs[insts[j].mat.buf] = last.snap[insts[j].mat.buf]

====
